---- MODULE Spec2Model ----
(***************************************************************************)
(* A model of the RESTArt dispatch layer: the registry of URI rules        *)
(* (restart/api.py) and the per-request dispatch of a Resource             *)
(* (restart/resource.py).                                                  *)
(*                                                                         *)
(* Python values are tagged records: the field t names the Python type,    *)
(* so None, '', [] and {} stay distinct and truthiness is computed as      *)
(* Python computes it.                                                     *)
(***************************************************************************)
EXTENDS Integers, Sequences, FiniteSets, TLC

VARIABLES
    rules,      \* RESTArt._rules: endpoint -> Rule
    config,     \* restart.config.config: ACTION_MAP and LOGGER_METHODS
    call,       \* the last registration call: its arguments and outcome
    ncalls,     \* number of registration calls made so far
    disp        \* the dispatches in progress: one record per handler call

vars == <<rules, config, call, ncalls, disp>>

(***************************************************************************)
(* Bounds                                                                  *)
(***************************************************************************)
MaxCalls == 2
NumDispatch == 1
NumConc == 2

(***************************************************************************)
(* Python values                                                           *)
(***************************************************************************)
None == [t |-> "None"]
Str(s) == [t |-> "str", v |-> s]
List(S) == [t |-> "list", v |-> S]
Dict(f) == [t |-> "dict", v |-> f]
Num(n) == [t |-> "int", v |-> n]
Tuple(seq) == [t |-> "tuple", v |-> seq]

\* bool(x) of Python for the values the registry receives
Truthy(x) ==
    CASE x.t = "None" -> FALSE
      [] x.t = "str"  -> x.v # ""
      [] x.t = "list" -> x.v # {}
      [] x.t = "dict" -> DOMAIN x.v # {}
      [] OTHER        -> TRUE

\* a or b
Or(a, b) == IF Truthy(a) THEN a ELSE b

\* d.update(other) on a copy of d: the entries of other win
Update(d, other) ==
    [m \in DOMAIN d \cup DOMAIN other |->
        IF m \in DOMAIN other THEN other[m] ELSE d[m]]

EmptyDict == [m \in {} |-> ""]

(***************************************************************************)
(* Configuration (restart/config.py)                                      *)
(***************************************************************************)
DefaultActionMap ==
    [m \in {"POST", "GET", "PUT", "PATCH", "DELETE"} |->
        CASE m = "POST"   -> "create"
          [] m = "GET"    -> "read"
          [] m = "PUT"    -> "replace"
          [] m = "PATCH"  -> "update"
          [] m = "DELETE" -> "delete"]

DefaultLoggerMethods == {"POST", "PUT", "PATCH"}

DefaultConfig ==
    [ACTION_MAP |-> DefaultActionMap, LOGGER_METHODS |-> DefaultLoggerMethods]

(***************************************************************************)
(* Resource classes of the application                                     *)
(***************************************************************************)
Classes == {"Todos", "Users"}

\* cls.name
ClassName(cls) == IF cls = "Todos" THEN "todos" ELSE "users"

(***************************************************************************)
(* The registry (restart/api.py)                                           *)
(*                                                                         *)
(* A registration operator maps a registry state                           *)
(*   [rules, config, exc]                                                  *)
(* to the state after the call; exc names the exception the call raised,   *)
(* "None" when it returned.  The state after the call also holds the       *)
(* mappings the caller passed in (actions, list_actions, item_actions) as  *)
(* the call leaves them.                                                   *)
(***************************************************************************)
Rule(uri, methods, handler) ==
    [uri |-> uri, methods |-> methods, handler |-> handler]

\* _get_handler with the update reversed: the default table wins
get_handler_DefaultWins(cfg, resource_class, actions) ==
    LET copy == cfg.ACTION_MAP
        action_map == IF Truthy(actions) THEN Update(actions.v, copy) ELSE copy
    IN  [config  |-> cfg,
         handler |-> [resource_class |-> resource_class,
                      action_map     |-> action_map],
         actions |-> actions]

\* _get_handler updating the default table itself instead of a copy of it
get_handler_NoCopy(cfg, resource_class, actions) ==
    LET action_map == IF Truthy(actions)
                      THEN Update(cfg.ACTION_MAP, actions.v)
                      ELSE cfg.ACTION_MAP
    IN  [config  |-> [cfg EXCEPT !.ACTION_MAP = action_map],
         handler |-> [resource_class |-> resource_class,
                      action_map     |-> action_map],
         actions |-> actions]

\* _get_handler taking the overrides, when there are any, as the whole map
get_handler_OverrideOnly(cfg, resource_class, actions) ==
    LET copy == cfg.ACTION_MAP
        action_map == IF Truthy(actions) THEN actions.v ELSE copy
    IN  [config  |-> cfg,
         handler |-> [resource_class |-> resource_class,
                      action_map     |-> action_map],
         actions |-> actions]

\* RESTArt._get_handler: the handler and the configuration it leaves behind
get_handler(cfg, resource_class, actions) ==
    LET copy == cfg.ACTION_MAP
        action_map == IF Truthy(actions) THEN Update(copy, actions.v) ELSE copy
    IN  [config  |-> cfg,
         handler |-> [resource_class |-> resource_class,
                      action_map     |-> action_map],
         actions |-> actions]

\* add_rule without the duplicate check: a second registration overwrites
add_rule_Overwrite(S, resource_class, uri, endpoint, methods, actions) ==
    LET actual_methods == Or(methods, List(DOMAIN S.config.ACTION_MAP)).v
        gh == get_handler(S.config, resource_class, actions)
    IN  [rules  |-> (endpoint :> Rule(uri, actual_methods, gh.handler))
                        @@ S.rules,
         config |-> gh.config,
         exc    |-> "None",
         actions |-> gh.actions]

\* add_rule defaulting the methods to those of the merged action map
add_rule_MergedMethods(S, resource_class, uri, endpoint, methods, actions) ==
    IF endpoint \in DOMAIN S.rules
    THEN [rules |-> S.rules, config |-> S.config,
          exc |-> "AssertionError", actions |-> actions]
    ELSE LET gh == get_handler(S.config, resource_class, actions)
             actual_methods ==
                 Or(methods, List(DOMAIN gh.handler.action_map)).v
         IN  [rules  |-> (endpoint :> Rule(uri, actual_methods, gh.handler))
                             @@ S.rules,
              config |-> gh.config,
              exc    |-> "None",
              actions |-> gh.actions]

\* add_rule testing "methods is None" instead of the truth value of methods
add_rule_IsNone(S, resource_class, uri, endpoint, methods, actions) ==
    IF endpoint \in DOMAIN S.rules
    THEN [rules |-> S.rules, config |-> S.config,
          exc |-> "AssertionError", actions |-> actions]
    ELSE LET actual_methods ==
                 IF methods = None THEN DOMAIN S.config.ACTION_MAP
                                   ELSE methods.v
             gh == get_handler(S.config, resource_class, actions)
         IN  [rules  |-> (endpoint :> Rule(uri, actual_methods, gh.handler))
                             @@ S.rules,
              config |-> gh.config,
              exc    |-> "None",
              actions |-> gh.actions]

\* RESTArt.add_rule
add_rule(S, resource_class, uri, endpoint, methods, actions) ==
    IF endpoint \in DOMAIN S.rules
    THEN [rules |-> S.rules, config |-> S.config,
          exc |-> "AssertionError", actions |-> actions]
    ELSE LET actual_methods == Or(methods, List(DOMAIN S.config.ACTION_MAP)).v
             gh == get_handler(S.config, resource_class, actions)
         IN  [rules  |-> (endpoint :> Rule(uri, actual_methods, gh.handler))
                             @@ S.rules,
              config |-> gh.config,
              exc    |-> "None",
              actions |-> gh.actions]

\* RESTArt.route, applied to a class
route(S, cls, uri, endpoint, methods, actions) ==
    LET actual_uri == Or(uri, Str("/" \o ClassName(cls))).v
        actual_endpoint == Or(endpoint, Str(ClassName(cls))).v
    IN  add_rule(S, cls, actual_uri, actual_endpoint, methods, actions)

\* register without the built-in GET -> index of the list rule
register_NoIndex(S, cls, prefix, pk, list_actions, item_actions) ==
    LET actual_prefix == Or(prefix, Str("/" \o ClassName(cls))).v
        S1 == add_rule(S, cls, actual_prefix, ClassName(cls) \o "_list",
                       List({"GET", "POST"}), list_actions)
        S2 == add_rule(S1, cls, actual_prefix \o "/" \o pk,
                       ClassName(cls) \o "_item",
                       List({"GET", "PUT", "PATCH", "DELETE"}), item_actions)
    IN  IF S1.exc # "None"
        THEN [rules |-> S1.rules, config |-> S1.config, exc |-> S1.exc,
              list_actions |-> S1.actions, item_actions |-> item_actions]
        ELSE [rules |-> S2.rules, config |-> S2.config, exc |-> S2.exc,
              list_actions |-> S1.actions, item_actions |-> S2.actions]

\* register giving the item rule the methods of the list rule
register_ListMethods(S, cls, prefix, pk, list_actions, item_actions) ==
    LET actual_prefix == Or(prefix, Str("/" \o ClassName(cls))).v
        base == ("GET" :> "index")
        actual_list_actions ==
            IF Truthy(list_actions) THEN Update(base, list_actions.v) ELSE base
        S1 == add_rule(S, cls, actual_prefix, ClassName(cls) \o "_list",
                       List({"GET", "POST"}), Dict(actual_list_actions))
        S2 == add_rule(S1, cls, actual_prefix \o "/" \o pk,
                       ClassName(cls) \o "_item",
                       List({"GET", "POST"}), item_actions)
    IN  IF S1.exc # "None"
        THEN [rules |-> S1.rules, config |-> S1.config, exc |-> S1.exc,
              list_actions |-> list_actions, item_actions |-> item_actions]
        ELSE [rules |-> S2.rules, config |-> S2.config, exc |-> S2.exc,
              list_actions |-> list_actions, item_actions |-> S2.actions]

\* RESTArt.register, applied to a class
register(S, cls, prefix, pk, list_actions, item_actions) ==
    LET actual_prefix == Or(prefix, Str("/" \o ClassName(cls))).v
        base == ("GET" :> "index")
        actual_list_actions ==
            IF Truthy(list_actions) THEN Update(base, list_actions.v) ELSE base
        S1 == add_rule(S, cls, actual_prefix, ClassName(cls) \o "_list",
                       List({"GET", "POST"}), Dict(actual_list_actions))
        S2 == add_rule(S1, cls, actual_prefix \o "/" \o pk,
                       ClassName(cls) \o "_item",
                       List({"GET", "PUT", "PATCH", "DELETE"}), item_actions)
    IN  IF S1.exc # "None"
        THEN [rules |-> S1.rules, config |-> S1.config, exc |-> S1.exc,
              list_actions |-> list_actions, item_actions |-> item_actions]
        ELSE [rules |-> S2.rules, config |-> S2.config, exc |-> S2.exc,
              list_actions |-> list_actions, item_actions |-> S2.actions]

\* RESTArt.__init__
EmptyRules == [e \in {} |-> Rule("", {}, None)]

Registry == [rules |-> rules, config |-> config, exc |-> "None"]

(***************************************************************************)
(* Collaborators of the dispatcher: requests, responses, HTTP exceptions   *)
(* (restart/request.py, restart/response.py, restart/exceptions.py)        *)
(***************************************************************************)
\* an incoming request, before parsing
Request(method, path, query_string, data) ==
    [t |-> "Request", method |-> method, path |-> path,
     environ |-> [QUERY_STRING |-> query_string], data |-> data]

\* request.parse(parser_class): the parsed request carries the parsed body
parse(request, parser_class) ==
    [t |-> "ParsedRequest", method |-> request.method, path |-> request.path,
     environ |-> request.environ,
     data |-> [t |-> "parsed", by |-> parser_class, v |-> request.data]]

\* Response(data, status=200, headers=None)
Response(data, status, headers) ==
    [t |-> "Response", data |-> data, status |-> status, headers |-> headers]

\* response.render(renderer_class)
render(response, renderer_class) ==
    [t |-> "Rendered", by |-> renderer_class, response |-> response]

\* an HTTP-level exception: code, description and the headers it provides
HTTPException(code, description) ==
    [t |-> "HTTPException", code |-> code, description |-> description]

\* exc.get_headers(environ): a list of (name, value) pairs
get_headers(exc, environ) ==
    << <<"Content-Type", "text/html">>,
       <<"X-Query", environ.QUERY_STRING>>,
       <<"Content-Type", "application/json">> >>

\* dict(pairs): the last pair of a name wins
RECURSIVE dict(_)
dict(pairs) ==
    IF pairs = <<>> THEN EmptyDict
    ELSE LET n == Len(pairs)
             last == pairs[n]
         IN  (last[1] :> Str(last[2])) @@ dict(SubSeq(pairs, 1, n - 1))

\* any other exception an action raises
Error(name) == [t |-> name]

ParserClass == "JSONParser"
RendererClass == "JSONRenderer"

(***************************************************************************)
(* Members of the resource classes: getattr(resource, name) finds the      *)
(* methods the class defines and the attributes every Resource has         *)
(***************************************************************************)
Methods(cls) ==
    IF cls = "Todos" THEN {"index", "create", "read"} ELSE {"index"}

Attributes(cls) == {"name", "action_map"}

HasAttr(cls, name) == name \in Methods(cls) \cup Attributes(cls)

(***************************************************************************)
(* The dispatcher (restart/resource.py)                                    *)
(***************************************************************************)
Dispatchers == 1..NumDispatch

Unset == [t |-> "unset"]

Idle ==
    [pc |-> "idle", endpoint |-> "", request |-> Unset, args |-> <<>>,
     kwargs |-> EmptyDict, resource |-> Unset, action_name |-> "", called_with |-> Unset,
     raised |-> Unset, rv |-> Unset, response |-> Unset, result |-> Unset,
     exc |-> Unset, debug |-> <<>>, errors |-> <<>>,
     nparse |-> 0, ninvoke |-> 0, nrender |-> 0]

\* Resource._get_head
get_head(resource) ==
    LET query_string == resource.request.environ.QUERY_STRING
        separator == IF query_string # "" THEN "?" ELSE ""
    IN  "[" \o resource.request.method \o " " \o resource.request.path
            \o separator \o query_string \o "]"

\* Resource.log_message: the debug log after the call
log_message(cfg, resource, debug, msg) ==
    IF resource.request.method \in cfg.LOGGER_METHODS
    THEN Append(debug, <<get_head(resource), msg>>)
    ELSE debug

\* Resource.log_exception: the error log after the call
log_exception(resource, errors, exc) ==
    Append(errors, <<"Exception on " \o get_head(resource), exc>>)

\* handle_exception dropping the headers of an HTTP exception
handle_exception_NoHeaders(resource, errors, exc) ==
    IF exc.t = "HTTPException"
    THEN LET rv == Tuple(<<Dict("message" :> Str(exc.description)),
                           Num(exc.code)>>)
         IN  [rv |-> rv, exc |-> Unset, errors |-> errors]
    ELSE [rv |-> Unset, exc |-> exc,
          errors |-> log_exception(resource, errors, exc)]

\* handle_exception answering every other exception with a 500 response
handle_exception_Swallow(resource, errors, exc) ==
    IF exc.t = "HTTPException"
    THEN LET headers == Dict(dict(get_headers(exc, resource.request.environ)))
             rv == Tuple(<<Dict("message" :> Str(exc.description)),
                           Num(exc.code), headers>>)
         IN  [rv |-> rv, exc |-> Unset, errors |-> errors]
    ELSE [rv |-> Tuple(<<Dict("message" :> Str("Internal Server Error")),
                         Num(500)>>),
          exc |-> Unset,
          errors |-> log_exception(resource, errors, exc)]

\* Resource.handle_exception: the value returned (rv) or the exception
\* raised (exc), and the error log
handle_exception(resource, errors, exc) ==
    IF exc.t = "HTTPException"
    THEN LET headers == Dict(dict(get_headers(exc, resource.request.environ)))
             rv == Tuple(<<Dict("message" :> Str(exc.description)),
                           Num(exc.code), headers>>)
         IN  [rv |-> rv, exc |-> Unset, errors |-> errors]
    ELSE [rv |-> Unset, exc |-> exc,
          errors |-> log_exception(resource, errors, exc)]

\* make_response without the check for None
make_response_NoneAllowed(rv0) ==
    LET isTuple == rv0.t = "tuple"
        rv_len == IF isTuple THEN Len(rv0.v) ELSE 0
        rv == IF isTuple /\ rv_len \in {2, 3} THEN rv0.v[1] ELSE rv0
        status == IF isTuple /\ rv_len \in {2, 3} THEN rv0.v[2] ELSE Num(200)
        headers == IF isTuple /\ rv_len = 3 THEN rv0.v[3] ELSE None
    IN  IF isTuple /\ rv_len \notin {2, 3}
        THEN [rv |-> Unset,
              exc |-> [t |-> "ValueError",
                       msg |-> "Resource action return a wrong response"]]
        ELSE IF rv.t # "Response"
        THEN [rv |-> Response(rv, status, headers), exc |-> Unset]
        ELSE [rv |-> rv, exc |-> Unset]

\* Resource.make_response: the response returned (rv) or the exception
\* raised (exc)
make_response(rv0) ==
    LET isTuple == rv0.t = "tuple"
        rv_len == IF isTuple THEN Len(rv0.v) ELSE 0
        rv == IF isTuple /\ rv_len \in {2, 3} THEN rv0.v[1] ELSE rv0
        status == IF isTuple /\ rv_len \in {2, 3} THEN rv0.v[2] ELSE Num(200)
        headers == IF isTuple /\ rv_len = 3 THEN rv0.v[3] ELSE None
    IN  IF isTuple /\ rv_len \notin {2, 3}
        THEN [rv |-> Unset,
              exc |-> [t |-> "ValueError",
                       msg |-> "Resource action return a wrong response"]]
        ELSE IF rv.t = "None"
        THEN [rv |-> Unset,
              exc |-> [t |-> "ValueError",
                       msg |-> "Resource action did not return a response"]]
        ELSE IF rv.t # "Response"
        THEN [rv |-> Response(rv, status, headers), exc |-> Unset]
        ELSE [rv |-> rv, exc |-> Unset]

\* what the application's actions may do: return a value or raise
Headers == Dict("X-Total" :> Str("1"))
Returned ==
    {Str("ok"), None, Dict("id" :> Num(1)),
     Response(Str("r"), Num(201), None),
     Tuple(<<>>), Tuple(<<Str("a")>>),
     Tuple(<<Str("a"), Num(404)>>),
     Tuple(<<Str("a"), Num(202), Headers>>),
     Tuple(<<Str("a"), Num(202), Headers, Str("x")>>),
     Tuple(<<None, Num(204)>>), Tuple(<<None, Num(204), Headers>>),
     Tuple(<<Response(Str("r"), Num(201), None), Num(404)>>),
     Tuple(<<Response(Str("r"), Num(201), None), Num(404), Headers>>)}
Raised ==
    {HTTPException(404, "Not Found"), HTTPException(400, "Bad Request"),
     Error("RuntimeError")}

\* the requests the router hands over, with the parameters it captured
Invocations ==
    {<<Request("GET", "/todos", "", ""), <<>>, EmptyDict>>,
     <<Request("GET", "/todos/42", "q=1", ""), <<"42">>, EmptyDict>>,
     <<Request("POST", "/todos", "", "{}"), <<>>, EmptyDict>>,
     <<Request("POST", "/todos/7", "q=1", "[]"), <<>>, ("pk" :> "7")>>,
     <<Request("OPTIONS", "/todos", "q=1", ""), <<>>, EmptyDict>>}

\* a handler keeping one resource for all its calls: the resource of a
\* dispatch through the same rule is taken over as that dispatch left it
HandlerOn_Reuse(d, invs) ==
    /\ disp[d].pc = "idle"
    /\ \E endpoint \in DOMAIN rules, inv \in invs :
          LET handler == rules[endpoint].handler
              left == {o \in DOMAIN disp : disp[o].endpoint = endpoint}
              resource ==
                  IF left # {}
                  THEN disp[CHOOSE o \in left : TRUE].resource
                  ELSE [cls |-> handler.resource_class,
                        action_map |-> handler.action_map,
                        request |-> Unset]
          IN  disp' = [disp EXCEPT ![d] =
                  [Idle EXCEPT !.pc = "resolve_action",
                               !.endpoint = endpoint,
                               !.request = inv[1],
                               !.args = inv[2],
                               !.kwargs = inv[3],
                               !.resource = resource]]
    /\ UNCHANGED <<rules, config, call, ncalls>>

\* handler(request, *args, **kwargs) called with one of the invocations
\* invs: a fresh resource bound to the rule's action map
HandlerOn(d, invs) ==
    /\ disp[d].pc = "idle"
    /\ \E endpoint \in DOMAIN rules, inv \in invs :
          LET handler == rules[endpoint].handler
          IN  disp' = [disp EXCEPT ![d] =
                  [Idle EXCEPT !.pc = "resolve_action",
                               !.endpoint = endpoint,
                               !.request = inv[1],
                               !.args = inv[2],
                               !.kwargs = inv[3],
                               !.resource =
                                   [cls |-> handler.resource_class,
                                    action_map |-> handler.action_map,
                                    request |-> Unset]]]
    /\ UNCHANGED <<rules, config, call, ncalls>>

Handler(d) == HandlerOn(d, Invocations)

\* the method looked up with a fallback to the lower-cased method name
\* instead of failing
ResolveAction_Fallback(d) ==
    LET self == disp[d].resource
        request == disp[d].request
    IN  /\ disp[d].pc = "resolve_action"
        /\ IF request.method \in DOMAIN self.action_map
           THEN disp' = [disp EXCEPT
                    ![d].action_name = self.action_map[request.method],
                    ![d].pc = "resolve_handler"]
           ELSE disp' = [disp EXCEPT
                    ![d].action_name = "index",
                    ![d].pc = "resolve_handler"]
        /\ UNCHANGED <<rules, config, call, ncalls>>

\* dispatch_request: action_name = self.action_map[request.method]
ResolveAction(d) ==
    LET self == disp[d].resource
        request == disp[d].request
    IN  /\ disp[d].pc = "resolve_action"
        /\ IF request.method \in DOMAIN self.action_map
           THEN disp' = [disp EXCEPT
                    ![d].action_name = self.action_map[request.method],
                    ![d].pc = "resolve_handler"]
           ELSE disp' = [disp EXCEPT
                    ![d].exc = [t |-> "KeyError",
                                msg |-> "Config ACTION_MAP has no mapping for "
                                            \o request.method],
                    ![d].pc = "raised"]
        /\ UNCHANGED <<rules, config, call, ncalls>>

\* dispatch_request: action = getattr(self, action_name)
ResolveHandler(d) ==
    LET self == disp[d].resource
    IN  /\ disp[d].pc = "resolve_handler"
        /\ IF HasAttr(self.cls, disp[d].action_name)
           THEN disp' = [disp EXCEPT ![d].pc = "parse"]
           ELSE disp' = [disp EXCEPT
                    ![d].exc = [t |-> "AttributeError",
                                msg |-> "Unimplemented action "
                                            \o disp[d].action_name],
                    ![d].pc = "raised"]
        /\ UNCHANGED <<rules, config, call, ncalls>>

\* the parsed request kept on the resource class, seen by every instance
Parse_Shared(d) ==
    LET request == disp[d].request
        self == [disp[d].resource EXCEPT
                    !.request = parse(request, ParserClass)]
    IN  /\ disp[d].pc = "parse"
        /\ disp' = [o \in DOMAIN disp |->
              IF o = d
              THEN [disp[d] EXCEPT
                      !.resource = self,
                      !.nparse = @ + 1,
                      !.debug = log_message(config, self, @,
                                            <<"<Request>", request.data>>),
                      !.pc = "invoke"]
              ELSE IF disp[o].resource # Unset
              THEN [disp[o] EXCEPT !.resource.request = self.request]
              ELSE disp[o]]
        /\ UNCHANGED <<rules, config, call, ncalls>>

\* dispatch_request: self.request = request.parse(...); log the request
Parse(d) ==
    LET request == disp[d].request
        self == [disp[d].resource EXCEPT
                    !.request = parse(request, ParserClass)]
    IN  /\ disp[d].pc = "parse"
        /\ disp' = [disp EXCEPT
              ![d].resource = self,
              ![d].nparse = @ + 1,
              ![d].debug = log_message(config, self, @,
                                       <<"<Request>", request.data>>),
              ![d].pc = "invoke"]
        /\ UNCHANGED <<rules, config, call, ncalls>>

\* the action called a second time after it raised an exception that is
\* not an HTTP exception
AfterAction_Retry(d, called_with, rv, exc) ==
    LET self == disp[d].resource
        handled == handle_exception(self, disp[d].errors, exc)
    IN  IF exc = Unset
        THEN disp' = [disp EXCEPT ![d].called_with = called_with,
                                  ![d].ninvoke = @ + 1,
                                  ![d].rv = rv,
                                  ![d].pc = "make_response"]
        ELSE IF handled.exc = Unset
        THEN disp' = [disp EXCEPT ![d].called_with = called_with,
                                  ![d].ninvoke = @ + 1,
                                  ![d].raised = exc,
                                  ![d].rv = handled.rv,
                                  ![d].pc = "make_response"]
        ELSE IF disp[d].ninvoke = 0
        THEN disp' = [disp EXCEPT ![d].called_with = called_with,
                                  ![d].ninvoke = @ + 1,
                                  ![d].pc = "invoke"]
        ELSE disp' = [disp EXCEPT ![d].called_with = called_with,
                                  ![d].ninvoke = @ + 1,
                                  ![d].raised = exc,
                                  ![d].errors = handled.errors,
                                  ![d].exc = handled.exc,
                                  ![d].pc = "raised"]

\* the step left after the action returned rv or raised exc
AfterAction(d, called_with, rv, exc) ==
    LET self == disp[d].resource
        handled == handle_exception(self, disp[d].errors, exc)
    IN  IF exc = Unset
        THEN disp' = [disp EXCEPT ![d].called_with = called_with,
                                  ![d].ninvoke = @ + 1,
                                  ![d].rv = rv,
                                  ![d].pc = "make_response"]
        ELSE IF handled.exc = Unset
        THEN disp' = [disp EXCEPT ![d].called_with = called_with,
                                  ![d].ninvoke = @ + 1,
                                  ![d].raised = exc,
                                  ![d].rv = handled.rv,
                                  ![d].pc = "make_response"]
        ELSE disp' = [disp EXCEPT ![d].called_with = called_with,
                                  ![d].ninvoke = @ + 1,
                                  ![d].raised = exc,
                                  ![d].errors = handled.errors,
                                  ![d].exc = handled.exc,
                                  ![d].pc = "raised"]

\* dispatch_request: rv = action(request, *args, **kwargs), with the
\* exceptions of the call handed to handle_exception
\* the action returning one of the values returned or raising one of the
\* exceptions raised
InvokeWith(d, returned, raised) ==
    LET self == disp[d].resource
        called_with == [request |-> disp[d].request, args |-> disp[d].args,
                        kwargs |-> disp[d].kwargs]
    IN  /\ disp[d].pc = "invoke"
        /\ IF disp[d].action_name \in Methods(self.cls)
           THEN \/ \E rv \in returned :
                      AfterAction(d, called_with, rv, Unset)
                \/ \E exc \in raised :
                      AfterAction(d, called_with, Unset, exc)
           ELSE \* the attribute is not callable
                AfterAction(d, Unset, Unset, Error("TypeError"))
        /\ UNCHANGED <<rules, config, call, ncalls>>

Invoke(d) == InvokeWith(d, Returned, Raised)

\* dispatch_request: response = self.make_response(rv)
MakeResponse(d) ==
    LET made == make_response(disp[d].rv)
    IN  /\ disp[d].pc = "make_response"
        /\ IF made.exc = Unset
           THEN disp' = [disp EXCEPT ![d].response = made.rv,
                                     ![d].pc = "log_response"]
           ELSE disp' = [disp EXCEPT ![d].exc = made.exc,
                                     ![d].pc = "raised"]
        /\ UNCHANGED <<rules, config, call, ncalls>>

\* dispatch_request: log the status and the data of the response
LogResponse(d) ==
    LET response == disp[d].response
    IN  /\ disp[d].pc = "log_response"
        /\ disp' = [disp EXCEPT
              ![d].debug = log_message(config, disp[d].resource, @,
                               <<"<Response>", response.status, response.data>>),
              ![d].pc = "render"]
        /\ UNCHANGED <<rules, config, call, ncalls>>

\* dispatch_request: return response.render(self.renderer_class)
Render(d) ==
    /\ disp[d].pc = "render"
    /\ disp' = [disp EXCEPT
          ![d].result = render(disp[d].response, RendererClass),
          ![d].nrender = @ + 1,
          ![d].pc = "returned"]
    /\ UNCHANGED <<rules, config, call, ncalls>>

\* the handler has returned or raised: the resource instance is dropped
Finish(d) ==
    /\ disp[d].pc \in {"returned", "raised"}
    /\ disp' = [disp EXCEPT ![d] = Idle]
    /\ UNCHANGED <<rules, config, call, ncalls>>

(***************************************************************************)
(* Registration calls made by the application at startup                   *)
(***************************************************************************)
UriArgs == {"/a"}
EndpointArgs == {"todos", "todos_list", "todos_item"}
MethodsArgs == {None, List({}), List({"GET", "OPTIONS"})}
ActionsArgs == {None, Dict("GET" :> "index"), Dict("OPTIONS" :> "options")}
OptUriArgs == {None, Str("/r")}
PrefixArgs == {None, Str(""), Str("/r")}
RouteMethodsArgs == {None, List({"GET"})}
OptEndpointArgs == {None, Str("todos_item")}
PkArgs == {"<pk>"}
ListActionsArgs == {None, Dict("GET" :> "list"), Dict("POST" :> "add")}
ItemActionsArgs == {None, Dict("GET" :> "retrieve")}

NoCall == [op |-> "none", exc |-> "None"]

AddRule ==
    /\ ncalls < MaxCalls
    /\ \E cls \in Classes, uri \in UriArgs, endpoint \in EndpointArgs,
          methods \in MethodsArgs, actions \in ActionsArgs :
          LET S == add_rule(Registry, cls, uri, endpoint, methods, actions)
          IN  /\ rules' = S.rules
              /\ config' = S.config
              /\ call' = [op |-> "add_rule", cls |-> cls, uri |-> Str(uri),
                          endpoint |-> Str(endpoint), methods |-> methods,
                          actions |-> actions, exc |-> S.exc,
                          after |-> [actions |-> S.actions]]
    /\ ncalls' = ncalls + 1
    /\ UNCHANGED disp

Route ==
    /\ ncalls < MaxCalls
    /\ \E cls \in Classes, uri \in OptUriArgs, endpoint \in OptEndpointArgs,
          methods \in RouteMethodsArgs, actions \in ActionsArgs :
          LET S == route(Registry, cls, uri, endpoint, methods, actions)
          IN  /\ rules' = S.rules
              /\ config' = S.config
              /\ call' = [op |-> "route", cls |-> cls, uri |-> uri,
                          endpoint |-> endpoint, methods |-> methods,
                          actions |-> actions, exc |-> S.exc,
                          after |-> [actions |-> S.actions]]
    /\ ncalls' = ncalls + 1
    /\ UNCHANGED disp

Register ==
    /\ ncalls < MaxCalls
    /\ \E cls \in Classes, prefix \in PrefixArgs, pk \in PkArgs,
          list_actions \in ListActionsArgs,
          item_actions \in ItemActionsArgs :
          LET S == register(Registry, cls, prefix, pk,
                            list_actions, item_actions)
          IN  /\ rules' = S.rules
              /\ config' = S.config
              /\ call' = [op |-> "register", cls |-> cls, prefix |-> prefix,
                          pk |-> pk, list_actions |-> list_actions,
                          item_actions |-> item_actions, exc |-> S.exc,
                          after |-> [list_actions |-> S.list_actions,
                                     item_actions |-> S.item_actions]]
    /\ ncalls' = ncalls + 1
    /\ UNCHANGED disp

InitRegistry ==
    /\ rules = EmptyRules
    /\ config = DefaultConfig
    /\ call = NoCall
    /\ ncalls = 0
    /\ disp = [d \in Dispatchers |-> Idle]

NextRegistry == AddRule \/ Route \/ Register

SpecRegistry == InitRegistry /\ [][NextRegistry]_vars

(***************************************************************************)
(* The serving process: the application registers its resources at         *)
(* startup, then requests are dispatched through the handlers              *)
(***************************************************************************)
\* the registries of the applications, built by their registration calls
App1 == register(Registry, "Todos", None, "<pk>", None, None)
App2 ==
    route(add_rule(Registry, "Todos", "/a", "todos",
                   List({"GET", "OPTIONS"}), None),
          "Users", None, None, None, Dict("OPTIONS" :> "options"))
App3 ==
    register(Registry, "Users", Str("/u"), "<int:id>",
             Dict("POST" :> "add"), Dict("GET" :> "name"))
App4 == register(Registry, "Users", None, "<pk>", None, None)
App5 == add_rule(Registry, "Todos", "/t", "todos", None,
                 Dict("GET" :> "index"))

\* the last registration call of each application
LastCall(S) ==
    IF S = App2
    THEN [op |-> "route", cls |-> "Users", uri |-> None, endpoint |-> None,
          methods |-> None, actions |-> Dict("OPTIONS" :> "options"),
          exc |-> S.exc]
    ELSE IF S = App3
    THEN [op |-> "register", cls |-> "Users", prefix |-> Str("/u"),
          pk |-> "<int:id>", list_actions |-> Dict("POST" :> "add"),
          item_actions |-> Dict("GET" :> "name"), exc |-> S.exc]
    ELSE IF S = App5
    THEN [op |-> "add_rule", cls |-> "Todos", uri |-> Str("/t"),
          endpoint |-> Str("todos"), methods |-> None,
          actions |-> Dict("GET" :> "index"), exc |-> S.exc]
    ELSE [op |-> "register", cls |-> IF S = App1 THEN "Todos" ELSE "Users",
          prefix |-> None, pk |-> "<pk>", list_actions |-> None,
          item_actions |-> None, exc |-> S.exc]

\* the application registers its resources, one of the registries apps
StartupOf(apps) ==
    /\ ncalls = 0
    /\ \E S \in apps :
          /\ S.exc = "None"
          /\ rules' = S.rules
          /\ config' = S.config
          /\ call' = LastCall(S)
    /\ ncalls' = MaxCalls
    /\ UNCHANGED disp

Startup == StartupOf({App1, App2, App3, App4, App5})

Init == InitRegistry

Next ==
    \/ Startup
    \/ \E d \in Dispatchers : Handler(d)
    \/ \E d \in Dispatchers : ResolveAction(d)
    \/ \E d \in Dispatchers : ResolveHandler(d)
    \/ \E d \in Dispatchers : Parse(d)
    \/ \E d \in Dispatchers : Invoke(d)
    \/ \E d \in Dispatchers : MakeResponse(d)
    \/ \E d \in Dispatchers : LogResponse(d)
    \/ \E d \in Dispatchers : Render(d)
    \/ \E d \in Dispatchers : Finish(d)

Spec == Init /\ [][Next]_vars

\* a step of dispatch_request: the call runs on until it returns or raises
Step(d) ==
    \/ ResolveAction(d)
    \/ ResolveHandler(d)
    \/ Parse(d)
    \/ Invoke(d)
    \/ MakeResponse(d)
    \/ LogResponse(d)
    \/ Render(d)

FairSpec == Spec /\ \A d \in Dispatchers : WF_vars(Step(d))

(***************************************************************************)
(* Several requests served at once: each handler call is a dispatch of     *)
(* its own, its steps interleaved with those of the others                 *)
(***************************************************************************)
ConcInvocations ==
    {<<Request("POST", "/todos", "", "{}"), <<>>, EmptyDict>>,
     <<Request("POST", "/todos/7", "q=1", "[]"), <<>>, ("pk" :> "7")>>}
ConcReturned == {Str("ok"), Tuple(<<Str("a"), Num(202), Headers>>)}
ConcRaised == {HTTPException(404, "Not Found"), Error("RuntimeError")}

InitConc ==
    /\ rules = EmptyRules
    /\ config = DefaultConfig
    /\ call = NoCall
    /\ ncalls = 0
    /\ disp = [d \in 1..NumConc |-> Idle]

NextConc ==
    \/ StartupOf({App1})
    \/ \E d \in DOMAIN disp : HandlerOn(d, ConcInvocations)
    \/ \E d \in DOMAIN disp : ResolveAction(d)
    \/ \E d \in DOMAIN disp : ResolveHandler(d)
    \/ \E d \in DOMAIN disp : Parse(d)
    \/ \E d \in DOMAIN disp : InvokeWith(d, ConcReturned, ConcRaised)
    \/ \E d \in DOMAIN disp : MakeResponse(d)
    \/ \E d \in DOMAIN disp : LogResponse(d)
    \/ \E d \in DOMAIN disp : Render(d)
    \/ \E d \in DOMAIN disp : Finish(d)

SpecConc == InitConc /\ [][NextConc]_vars

(***************************************************************************)
(* Properties of the registry                                              *)
(***************************************************************************)
\* the step is a call of one of the operations ops
Called(ops) == ncalls' = ncalls + 1 /\ call'.op \in ops

\* the endpoint a call of add_rule or route registers
EndpointOf(c) ==
    IF c.op = "route" THEN Or(c.endpoint, Str(ClassName(c.cls))).v
                      ELSE c.endpoint.v

\* the uri a call of add_rule or route registers
UriOf(c) ==
    IF c.op = "route" THEN Or(c.uri, Str("/" \o ClassName(c.cls))).v
                      ELSE c.uri.v

\* C1: add_rule or route called with an endpoint that is already a key of
\* the registry raises and leaves the registry unchanged; no registration
\* call ever replaces, modifies or removes a rule already stored, so each
\* endpoint keeps the rule of its first successful registration.
C1_DuplicateEndpointFails ==
    [][ /\ (Called({"add_rule", "route"})
              /\ EndpointOf(call') \in DOMAIN rules)
            => (call'.exc = "AssertionError" /\ rules' = rules)
        /\ \A e \in DOMAIN rules :
              e \in DOMAIN rules' /\ rules'[e] = rules[e] ]_vars

C1_Witness ==
    /\ call.op \in {"add_rule", "route"}
    /\ call.exc = "AssertionError"
    /\ EndpointOf(call) \in DOMAIN rules
    /\ rules[EndpointOf(call)].uri # UriOf(call)

\* C2: a successful register call adds exactly the two rules <name>_list
\* (uri = prefix, methods {GET, POST}) and <name>_item (uri = prefix/pk,
\* methods {GET, PUT, PATCH, DELETE}) and touches no other rule; without
\* list_actions the list rule's action map sends GET to index.
C2_RegisterAddsListAndItem ==
    [][ (Called({"register"}) /\ call'.exc = "None") =>
        LET c == call'
            l == ClassName(c.cls) \o "_list"
            i == ClassName(c.cls) \o "_item"
            p == IF c.prefix = None \/ c.prefix = Str("")
                 THEN "/" \o ClassName(c.cls) ELSE c.prefix.v
        IN  /\ l \notin DOMAIN rules /\ i \notin DOMAIN rules
            /\ DOMAIN rules' = DOMAIN rules \cup {l, i}
            /\ \A e \in DOMAIN rules : rules'[e] = rules[e]
            /\ rules'[l].uri = p
            /\ rules'[l].methods = {"GET", "POST"}
            /\ rules'[i].uri = p \o "/" \o c.pk
            /\ rules'[i].methods = {"GET", "PUT", "PATCH", "DELETE"}
            /\ c.list_actions = None
                  => rules'[l].handler.action_map["GET"] = "index" ]_vars

C2_Witness ==
    /\ call.op = "register"
    /\ call.exc = "None"
    /\ call.list_actions = None
    /\ call.prefix = Str("/r")
    /\ Cardinality(DOMAIN rules) = 3

\* C3: a register call that fails on an existing endpoint leaves the
\* registry as it was before the call.
C3_FailedRegisterStoresNothing ==
    [][ (Called({"register"}) /\ call'.exc # "None") => rules' = rules ]_vars

\* C4: add_rule or route called without methods stores the key set of the
\* default ACTION_MAP table as Rule.methods; a method that only the actions
\* override names is not among them.
C4_OmittedMethodsAreDefaultKeys ==
    [][ (Called({"add_rule", "route"}) /\ call'.exc = "None"
            /\ call'.methods = None) =>
        LET r == rules'[EndpointOf(call')]
        IN  /\ r.methods = DOMAIN config.ACTION_MAP
            /\ \A m \in DOMAIN r.handler.action_map :
                  m \notin DOMAIN config.ACTION_MAP => m \notin r.methods ]_vars

C4_Witness ==
    /\ call.op \in {"add_rule", "route"}
    /\ call.exc = "None"
    /\ call.methods = None
    /\ call.actions = Dict("OPTIONS" :> "options")
    /\ "OPTIONS" \notin rules[EndpointOf(call)].methods
    /\ "OPTIONS" \in DOMAIN rules[EndpointOf(call)].handler.action_map

\* C5 as stated: every rule has methods, and a rule registered without
\* methods has the key set of its own resolved action map as methods.
C5_OmittedMethodsAreResolvedKeys ==
    [][ /\ \A e \in DOMAIN rules' : rules'[e].methods # {}
        /\ (Called({"add_rule", "route"}) /\ call'.exc = "None"
               /\ call'.methods = None) =>
             LET r == rules'[EndpointOf(call')]
             IN  r.methods = DOMAIN r.handler.action_map ]_vars

\* C5, amended: every rule has methods; a rule registered without methods
\* has the key set of the default table as methods, which is always
\* contained in the key set of its resolved action map and equals it
\* exactly when the override names no method outside the default table.
C5_OmittedMethodsWithinResolvedKeys ==
    [][ /\ \A e \in DOMAIN rules' : rules'[e].methods # {}
        /\ (Called({"add_rule", "route"}) /\ call'.exc = "None"
               /\ call'.methods = None) =>
             LET r == rules'[EndpointOf(call')]
                 override == IF call'.actions = None THEN {}
                             ELSE DOMAIN call'.actions.v
             IN  /\ r.methods \subseteq DOMAIN r.handler.action_map
                 /\ (r.methods = DOMAIN r.handler.action_map)
                       <=> (override \subseteq DOMAIN config.ACTION_MAP)
                 /\ DOMAIN r.handler.action_map \ r.methods
                       = override \ DOMAIN config.ACTION_MAP ]_vars

C5_Witness ==
    /\ call.op \in {"add_rule", "route"}
    /\ call.exc = "None"
    /\ call.methods = List({})
    /\ rules[EndpointOf(call)].methods = DOMAIN config.ACTION_MAP
    /\ \E e \in DOMAIN rules :
          rules[e].methods # DOMAIN rules[e].handler.action_map

\* C6: the action map bound to the handler by add_rule (or route) is the
\* default table merged with the actions override: the keys of both, the
\* override's action where the override has the method, the default
\* table's action elsewhere; without an override it is the default table.
C6_ActionMapIsMerge ==
    [][ (Called({"add_rule", "route"}) /\ call'.exc = "None") =>
        LET am == rules'[EndpointOf(call')].handler.action_map
            hasOverride == call'.actions # None
            override == IF hasOverride THEN call'.actions.v ELSE EmptyDict
        IN  /\ DOMAIN am = DOMAIN config.ACTION_MAP \cup DOMAIN override
            /\ \A m \in DOMAIN override : am[m] = override[m]
            /\ \A m \in DOMAIN config.ACTION_MAP \ DOMAIN override :
                  am[m] = config.ACTION_MAP[m]
            /\ ~hasOverride => am = config.ACTION_MAP ]_vars

C6_Witness ==
    /\ call.op \in {"add_rule", "route"}
    /\ call.exc = "None"
    /\ call.actions = Dict("GET" :> "index")
    /\ rules[EndpointOf(call)].handler.action_map["GET"] = "index"
    /\ rules[EndpointOf(call)].handler.action_map["POST"] = "create"

(***************************************************************************)
(* Properties of the dispatcher                                            *)
(***************************************************************************)
\* equality of two Python values
Same(a, b) == a.t = b.t /\ a = b

\* the dispatch has left make_response with a response
Responded(d) == disp[d].pc \in {"log_response", "render", "returned"}

\* C7: when the action raises an HTTP-level exception, dispatch_request
\* raises nothing; it goes on to normalize and render a response whose data
\* is {"message": description}, whose status is the code and whose headers
\* are the mapping of the exception's get_headers for the request environ.
C7_HTTPExceptionBecomesResponse ==
    \A d \in Dispatchers :
        disp[d].raised.t = "HTTPException" =>
            LET exc == disp[d].raised
                pairs == get_headers(exc, disp[d].request.environ)
                expected ==
                    Response(Dict("message" :> Str(exc.description)),
                             Num(exc.code), Dict(dict(pairs)))
            IN  /\ disp[d].exc = Unset
                /\ disp[d].errors = <<>>
                /\ disp[d].pc \in {"make_response", "log_response",
                                   "render", "returned"}
                /\ Responded(d) =>
                      /\ disp[d].response = expected
                      /\ \A i \in 1..Len(pairs) :
                            pairs[i][1] \in DOMAIN disp[d].response.headers.v
                      /\ disp[d].response.headers.v["X-Query"]
                            = Str(disp[d].request.environ.QUERY_STRING)
                /\ disp[d].pc = "returned" =>
                      disp[d].result = render(expected, RendererClass)

C7_Witness ==
    \E d \in Dispatchers :
        /\ disp[d].raised = HTTPException(404, "Not Found")
        /\ disp[d].pc = "returned"
        /\ disp[d].result.response.status = Num(404)
        /\ disp[d].request.environ.QUERY_STRING = "q=1"

\* C8: when the action raises anything else, dispatch_request logs the
\* exception once and raises that same exception; it makes, logs and
\* renders no response.
C8_OtherExceptionPropagates ==
    \A d \in Dispatchers :
        (disp[d].raised # Unset /\ disp[d].raised.t # "HTTPException") =>
            /\ disp[d].pc = "raised"
            /\ disp[d].exc = disp[d].raised
            /\ Len(disp[d].errors) = 1
            /\ disp[d].errors[1][2] = disp[d].raised
            /\ disp[d].rv = Unset
            /\ disp[d].response = Unset
            /\ disp[d].result = Unset
            /\ disp[d].nrender = 0
            /\ \A i \in 1..Len(disp[d].debug) :
                  disp[d].debug[i][2][1] # "<Response>"

C8_Witness ==
    \E d \in Dispatchers :
        /\ disp[d].raised = Error("RuntimeError")
        /\ disp[d].pc = "raised"
        /\ disp[d].request.method = "POST"
        /\ Len(disp[d].debug) = 1

\* the action returned a 2- or 3-tuple whose first element is not None
GoodTuple(rv) ==
    /\ rv.t = "tuple"
    /\ Len(rv.v) \in {2, 3}
    /\ rv.v[1].t # "None"

\* C9: for a returned 2- or 3-tuple with data not None, the response of
\* make_response has exactly the tuple's elements as data, status and
\* headers (headers None for the 2-tuple), whatever the data is.
C9_TupleElementsBecomeResponse ==
    \A d \in Dispatchers :
        (GoodTuple(disp[d].rv) /\ Responded(d)) =>
            LET rv == disp[d].rv.v
            IN  /\ Same(disp[d].response.data, rv[1])
                /\ Same(disp[d].response.status, rv[2])
                /\ Same(disp[d].response.headers,
                        IF Len(rv) = 3 THEN rv[3] ELSE None)

\* the action returned nothing that make_response accepts
BadReturn(rv) ==
    \/ rv.t = "None"
    \/ rv.t = "tuple" /\ Len(rv.v) \notin {2, 3}
    \/ rv.t = "tuple" /\ Len(rv.v) \in {2, 3} /\ rv.v[1].t = "None"

\* C10: when the action returns None, a tuple of another length than 2 or
\* 3, or a 2-/3-tuple whose data is None, dispatch_request raises a
\* ValueError from make_response and nothing is rendered or returned.
C10_BadReturnRaisesValueError ==
    \A d \in Dispatchers :
        BadReturn(disp[d].rv) =>
            /\ disp[d].pc \in {"make_response", "raised"}
            /\ disp[d].pc = "raised" => disp[d].exc.t = "ValueError"
            /\ disp[d].response = Unset
            /\ disp[d].result = Unset
            /\ disp[d].nrender = 0

C10_Witness ==
    \E d \in Dispatchers :
        /\ disp[d].rv = Tuple(<<None, Num(204), Headers>>)
        /\ disp[d].pc = "raised"
        /\ disp[d].exc.t = "ValueError"

\* the status an action's return value declares: the second element of a
\* 2- or 3-tuple, the status of a Response, otherwise none (200)
Declared(rv) ==
    IF rv.t = "tuple" THEN rv.v[2]
    ELSE IF rv.t = "Response" THEN rv.status
    ELSE Num(200)

\* the action of dispatch d returned a value that make_response accepts
ReturnedValue(d) ==
    /\ disp[d].called_with # Unset
    /\ disp[d].raised = Unset
    /\ disp[d].rv # Unset
    /\ ~BadReturn(disp[d].rv)

\* C11: when the method is in the bound action map and the resolved action
\* exists, the dispatch of a returned value succeeds, and the status of its
\* response is the status the return value declares, or 200 without one.
C11_StatusIsDeclaredStatus ==
    \A d \in Dispatchers :
        ReturnedValue(d) =>
            /\ disp[d].request.method \in DOMAIN disp[d].resource.action_map
            /\ HasAttr(disp[d].resource.cls, disp[d].action_name)
            /\ disp[d].pc # "raised"
            /\ disp[d].exc = Unset
            /\ Responded(d) =>
                  /\ disp[d].response.t = "Response"
                  /\ disp[d].response.status = Declared(disp[d].rv)

\* the method of dispatch d has no entry in the action map of its resource
Unmapped(d) ==
    /\ disp[d].pc # "idle"
    /\ disp[d].request.method \notin DOMAIN disp[d].resource.action_map

\* C12: when the method has no entry in the bound action map,
\* dispatch_request raises the KeyError of the resolve-action step and does
\* nothing else: no parse, no request attached, no action invoked, no log
\* line, no response, nothing rendered.
C12_UnmappedMethodRaisesFirst ==
    \A d \in Dispatchers :
        Unmapped(d) =>
            /\ disp[d].pc \in {"resolve_action", "raised"}
            /\ disp[d].pc = "raised" =>
                  /\ disp[d].exc.t = "KeyError"
                  /\ disp[d].exc.msg = "Config ACTION_MAP has no mapping for "
                                          \o disp[d].request.method
            /\ disp[d].action_name = ""
            /\ disp[d].nparse = 0
            /\ disp[d].resource.request = Unset
            /\ disp[d].ninvoke = 0
            /\ disp[d].called_with = Unset
            /\ disp[d].debug = <<>>
            /\ disp[d].errors = <<>>
            /\ disp[d].response = Unset
            /\ disp[d].nrender = 0
            /\ disp[d].result = Unset

C12_Witness ==
    \E d \in Dispatchers :
        /\ Unmapped(d)
        /\ disp[d].pc = "raised"
        /\ disp[d].request.method = "OPTIONS"
        /\ disp[d].request.method \in rules[disp[d].endpoint].methods

\* the action name resolved for dispatch d is not a method of its resource:
\* the member is absent, or it is an attribute that cannot be called
NotCallable(d) ==
    /\ disp[d].action_name # ""
    /\ disp[d].action_name \notin Methods(disp[d].resource.cls)

\* C13: when the resolved action name is not a callable member of the
\* resource, dispatch_request raises the "Unimplemented action" error at
\* the resolve-handler step: nothing is parsed, invoked or rendered.
C13_NotCallableIsUnimplemented ==
    \A d \in Dispatchers :
        NotCallable(d) =>
            /\ disp[d].pc \in {"resolve_handler", "raised"}
            /\ disp[d].pc = "raised" =>
                  /\ disp[d].exc.t = "AttributeError"
                  /\ disp[d].exc.msg = "Unimplemented action "
                                          \o disp[d].action_name
            /\ disp[d].nparse = 0
            /\ disp[d].resource.request = Unset
            /\ disp[d].ninvoke = 0
            /\ disp[d].nrender = 0

\* C14: the action is called with the parsed request attached to the
\* resource, followed by exactly the positional and keyword parameters
\* handed to dispatch_request.
C14_ActionGetsParsedRequest ==
    \A d \in Dispatchers :
        disp[d].called_with # Unset =>
            /\ disp[d].called_with.request.t = "ParsedRequest"
            /\ Same(disp[d].called_with.request, disp[d].resource.request)
            /\ disp[d].called_with.args = disp[d].args
            /\ disp[d].called_with.kwargs = disp[d].kwargs

\* the position of a step in dispatch_request
Rank(pc) ==
    CASE pc = "idle"            -> 0
      [] pc = "resolve_action"  -> 1
      [] pc = "resolve_handler" -> 2
      [] pc = "parse"           -> 3
      [] pc = "invoke"          -> 4
      [] pc = "make_response"   -> 5
      [] pc = "log_response"    -> 6
      [] pc = "render"          -> 7
      [] OTHER                  -> 8

\* a dispatch moves to the next step, raises, or ends
Forward(d) ==
    LET pc == disp[d].pc
        next == disp'[d].pc
    IN  next # pc =>
            \/ pc \in {"returned", "raised"} /\ next = "idle"
            \/ pc \notin {"returned", "raised"} /\ next # "raised"
                 /\ Rank(next) = Rank(pc) + 1
            \/ pc \in {"resolve_action", "resolve_handler", "invoke",
                       "make_response"} /\ next = "raised"

\* parser, action and renderer are used at most once, each after the
\* steps before it
UsedOnceInOrder(d) ==
    /\ disp[d].nparse \in {0, 1}
    /\ disp[d].ninvoke \in {0, 1}
    /\ disp[d].nrender \in {0, 1}
    /\ disp[d].nparse = 1 =>
          /\ disp[d].request.method \in DOMAIN disp[d].resource.action_map
          /\ HasAttr(disp[d].resource.cls, disp[d].action_name)
    /\ disp[d].pc # "idle" =>
          (disp[d].nparse = 1 <=> disp[d].resource.request # Unset)
    /\ disp[d].ninvoke = 1 => disp[d].nparse = 1
    /\ disp[d].nrender = 1 =>
          /\ disp[d].ninvoke = 1
          /\ disp[d].response # Unset
          /\ disp[d].pc = "returned"
    /\ disp[d].pc = "returned" <=> disp[d].result # Unset
    /\ disp[d].pc = "raised" <=> disp[d].exc # Unset

\* C15: a dispatch goes through resolve action, resolve handler, parse,
\* invoke, normalize, log response and render in this order and never
\* back; parser, action and renderer are each used at most once, after the
\* steps before them; every dispatch ends returning the rendered result or
\* raising an exception.
C15_StepsInOrderToTheEnd ==
    /\ [][\A d \in Dispatchers : Forward(d)]_vars
    /\ [](\A d \in Dispatchers : UsedOnceInOrder(d))
    /\ \A d \in Dispatchers :
          (disp[d].pc = "resolve_action")
              ~> (disp[d].pc \in {"returned", "raised"})

C15_Witness ==
    \E d \in Dispatchers :
        /\ disp[d].pc = "returned"
        /\ disp[d].nparse = 1 /\ disp[d].ninvoke = 1 /\ disp[d].nrender = 1
        /\ disp[d].raised.t = "HTTPException"
        /\ Len(disp[d].debug) = 2

\* the application registered cls by register(cls), all options omitted
RegisteredByDefault ==
    /\ call.op = "register"
    /\ call.exc = "None"
    /\ call.prefix = None
    /\ call.list_actions = None
    /\ call.item_actions = None

\* dispatch d is a GET through the rule of endpoint e, its action resolved
ResolvedGet(d, e) ==
    /\ disp[d].endpoint = e
    /\ disp[d].request.method = "GET"
    /\ disp[d].pc \notin {"idle", "resolve_action"}

Ended(d) == disp[d].pc \in {"returned", "raised"}

\* two dispatches of the same request through the same rule
SameCall(a, b) ==
    /\ disp[a].endpoint = disp[b].endpoint
    /\ disp[a].request = disp[b].request
    /\ disp[a].args = disp[b].args
    /\ disp[a].kwargs = disp[b].kwargs

\* what the action did for its arguments: the value it returned or the
\* exception it raised
SameOutcome(a, b) ==
    /\ disp[a].called_with = disp[b].called_with
    /\ disp[a].raised = disp[b].raised
    /\ disp[a].raised = Unset => Same(disp[a].rv, disp[b].rv)

\* the resource of a dispatch that starts is a new instance bound to the
\* action map of the rule, no request attached
FreshResource(d) ==
    disp[d].pc = "resolve_action" =>
        disp[d] = [Idle EXCEPT
                      !.pc = "resolve_action",
                      !.endpoint = disp[d].endpoint,
                      !.request = disp[d].request,
                      !.args = disp[d].args,
                      !.kwargs = disp[d].kwargs,
                      !.resource =
                          [cls |-> rules[disp[d].endpoint].handler.resource_class,
                           action_map |->
                               rules[disp[d].endpoint].handler.action_map,
                           request |-> Unset]]

\* C17: the same request dispatched twice through the same rule, the action
\* doing the same for the same arguments, gives equal results: every
\* dispatch starts on a fresh resource, whatever earlier dispatches
\* attached, and the registry it reads is the one they read.
C17_SameRequestSameResult ==
    /\ [](\A d \in DOMAIN disp : FreshResource(d))
    /\ [][ncalls > 0 => (rules' = rules /\ config' = config)]_vars
    /\ [](\A a, b \in DOMAIN disp :
            (Ended(a) /\ Ended(b) /\ SameCall(a, b) /\ SameOutcome(a, b)) =>
                /\ disp[a].pc = disp[b].pc
                /\ disp[a].result = disp[b].result
                /\ disp[a].exc = disp[b].exc
                /\ disp[a].response = disp[b].response
                /\ disp[a].debug = disp[b].debug
                /\ disp[a].errors = disp[b].errors
                /\ disp[a].resource = disp[b].resource)

C17_Witness ==
    \E a, b \in DOMAIN disp :
        /\ a # b
        /\ disp[a].pc = "returned" /\ disp[b].pc = "returned"
        /\ SameCall(a, b) /\ SameOutcome(a, b)
        /\ disp[a].request.environ.QUERY_STRING = "q=1"
        /\ disp[a].result = disp[b].result

\* the head logged for the request of dispatch d
OwnHead(d) == get_head([request |-> parse(disp[d].request, ParserClass)])

\* everything dispatch d has read from a request, it has read from its own
OwnRequest(d) ==
    disp[d].pc # "idle" =>
        /\ disp[d].resource.cls = rules[disp[d].endpoint].handler.resource_class
        /\ disp[d].resource.action_map =
               rules[disp[d].endpoint].handler.action_map
        /\ disp[d].resource.request # Unset =>
               disp[d].resource.request = parse(disp[d].request, ParserClass)
        /\ \A i \in DOMAIN disp[d].debug : disp[d].debug[i][1] = OwnHead(d)
        /\ \A i \in DOMAIN disp[d].errors :
               disp[d].errors[i][1] = "Exception on " \o OwnHead(d)
        /\ (disp[d].raised # Unset /\ disp[d].raised.t = "HTTPException"
                /\ disp[d].rv # Unset) =>
               disp[d].rv.v[3].v["X-Query"] =
                   Str(disp[d].request.environ.QUERY_STRING)
        /\ disp[d].called_with # Unset =>
               /\ disp[d].called_with.request = disp[d].request
               /\ disp[d].called_with.args = disp[d].args
               /\ disp[d].called_with.kwargs = disp[d].kwargs

\* C18: dispatches running side by side each work on their own resource
\* and their own request: a step of one dispatch changes nothing of
\* another, what a dispatch logs and puts into exception headers comes
\* from its own request, and no step of a dispatch changes the registry,
\* a rule or a bound action map.
C18_DispatchesAreIsolated ==
    /\ [](\A d \in DOMAIN disp : OwnRequest(d))
    /\ [][\A d \in DOMAIN disp :
             disp'[d] # disp[d] =>
                 /\ \A o \in DOMAIN disp \ {d} : disp'[o] = disp[o]
                 /\ rules' = rules /\ config' = config]_vars

C18_Witness ==
    \E a, b \in DOMAIN disp :
        /\ a # b
        /\ disp[a].pc = "make_response"
        /\ disp[b].pc = "raised" /\ disp[b].errors # <<>>
        /\ disp[a].request # disp[b].request
        /\ disp[a].request.environ.QUERY_STRING = "q=1"
        /\ disp[a].raised # Unset /\ disp[a].raised.t = "HTTPException"
        /\ disp[a].debug # <<>> /\ disp[b].debug # <<>>

(***************************************************************************)
(* What registration leaves alone                                          *)
(***************************************************************************)
\* the default table merged with the overrides of a rule
Merged(overrides) ==
    IF Truthy(overrides) THEN Update(DefaultActionMap, overrides.v)
                         ELSE DefaultActionMap

\* the mappings passed to the call are after it what they were before
ArgumentsKept(c) ==
    IF c.op = "register"
    THEN /\ Same(c.after.list_actions, c.list_actions)
         /\ Same(c.after.item_actions, c.item_actions)
    ELSE Same(c.after.actions, c.actions)

\* C19: a registration call writes the new registry entries and nothing
\* else: the default action table stays what it was, the mappings the
\* caller passed are not changed, the rules already registered keep their
\* action maps, and the list rule and the item rule of one register call
\* each get a map of their own, built from their own overrides.
C19_RegistrationWritesOnlyNewRules ==
    [][/\ config' = config
       /\ config'.ACTION_MAP = DefaultActionMap
       /\ ArgumentsKept(call')
       /\ \A e \in DOMAIN rules :
             e \in DOMAIN rules' /\ rules'[e] = rules[e]
       /\ (call'.op = "register" /\ call'.exc = "None") =>
             LET name == ClassName(call'.cls)
             IN  /\ rules'[name \o "_item"].handler.action_map =
                        Merged(call'.item_actions)
                 /\ rules'[name \o "_list"].handler.action_map =
                        Update(Merged(Dict("GET" :> "index")),
                               IF Truthy(call'.list_actions)
                               THEN call'.list_actions.v
                               ELSE EmptyDict)]_vars

\* a register call with overrides for both rules, made after a rule with
\* overrides of its own was registered
C19_Witness ==
    /\ call.op = "register" /\ call.exc = "None"
    /\ Truthy(call.list_actions) /\ Truthy(call.item_actions)
    /\ \E e \in DOMAIN rules :
          /\ e \notin {ClassName(call.cls) \o "_list",
                       ClassName(call.cls) \o "_item"}
          /\ rules[e].handler.action_map # DefaultActionMap

(***************************************************************************)
(* Rules registered without methods, and the requests routed through them  *)
(***************************************************************************)
\* the application's last call registered a rule without giving methods
OmittedMethods ==
    /\ call.op \in {"add_rule", "route"}
    /\ call.exc = "None"
    /\ call.methods = None

\* dispatch d runs a request that the router admits through the rule of
\* endpoint e
Admitted(d, e) ==
    /\ disp[d].pc # "idle"
    /\ disp[d].endpoint = e
    /\ disp[d].request.method \in rules[e].methods

\* C20: a rule registered by add_rule or route without methods has an
\* action for each of its methods, so a request the router admits through
\* it passes the lookup of the action: it never raises the KeyError
\* "no mapping for", and the action it resolves is the one the map of the
\* rule gives for its method.
C20_AdmittedMethodResolves ==
    OmittedMethods =>
        LET e == EndpointOf(call)
            action_map == rules[e].handler.action_map
        IN  /\ rules[e].methods # {}
            /\ rules[e].methods \subseteq DOMAIN action_map
            /\ \A d \in Dispatchers :
                  Admitted(d, e) =>
                      /\ disp[d].exc.t # "KeyError"
                      /\ disp[d].pc # "resolve_action" =>
                            disp[d].action_name =
                                action_map[disp[d].request.method]

\* a POST admitted through a rule registered without methods has resolved
\* its action and called it
C20_Witness ==
    /\ OmittedMethods
    /\ \E d \in Dispatchers :
          /\ Admitted(d, EndpointOf(call))
          /\ disp[d].request.method = "POST"
          /\ disp[d].action_name = "create"
          /\ disp[d].pc = "returned"
====
